---- MODULE Spec2Model ----
(***************************************************************************)
(* Model of the hub-api control plane of selfhost-stack.                   *)
(*                                                                         *)
(*   Spec        session authentication state machine of the FastAPI       *)
(*               hub-api (app/core/security.py, app/routers/auth.py):      *)
(*               the event-loop coroutine get_current_user, the           *)
(*               thread-pool handlers verify_admin and                     *)
(*               toggle_session_cleanup, the sweeper thread.               *)
(*   SpecUpdate  update / rollback engine (app/routers/services.py).       *)
(*   SpecLegacy  request gate of the monolithic hub-api/server.py.         *)
(*   SpecRollback  the rollback routes step by step.                       *)
(*   SpecSecrets   the secrets store behind rotate-api-key and POST /theme.*)
(*   SpecNames     sanitize_service_name and the routes that call it.      *)
(*   SpecPipeline  the background jobs as lists of external commands.      *)
(*                                                                         *)
(* Time is counted in minutes: 1800 s is DefaultTimeout = 30, and a        *)
(* theme.json session_timeout of m minutes is m.  The file system is       *)
(* assumed not to fail (open/rename succeed); external commands may fail.  *)
(***************************************************************************)
EXTENDS Integers, Sequences, FiniteSets, TLC

\* ---------------------------------------------------------------- bounds
MaxTime == 2
MaxTokens == 2
MaxJobs == 3
MaxRev == 1
MaxId == 2
MaxHist == 2

\* ------------------------------------------------------ program constants
DefaultTimeout == 30
ShortTimeout == 1
LongTimeout == 60
HistoryLimit == 5

Tokens == 1..MaxTokens
NoToken == 0
NoSession == -1
Keys == {"none", "good", "bad"}
TimeoutChoices == {DefaultTimeout, ShortTimeout, LongTimeout}

VARIABLES
    clock,            \* time.time(), in minutes
    valid_sessions,   \* security.valid_sessions: token -> expiry, NoSession if absent
    cleanup_enabled,  \* security.session_state["cleanup_enabled"]
    session_lock,     \* holder of security.session_lock: "free", "sweeper", "auth"
    sessions_file,    \* content of settings.SESSIONS_FILE
    sweeper,          \* cleanup_sessions_thread: [pc, now]
    auth,             \* the get_current_user coroutine on the event loop
    handler,          \* thread-pool handler running behind get_admin_user
    verify,           \* verify_admin / create_session in the thread pool
    issued,           \* number of tokens generated so far (token_hex is fresh)
    stale,            \* history: tokens whose expiry passed while cleanup was enabled
    exempt,           \* history: tokens in the table when cleanup was last disabled
    \* ---- update / rollback engine (routers/services.py)
    rollback_enabled, \* os.environ ROLLBACK_BACKUP_ENABLED == 'true', fixed per process
    rollback_file,    \* /app/data/rollback_<service>.json, per service
    head,             \* git rev-parse HEAD of /app/sources/<service>
    image,            \* image id of the service's container
    job,              \* the background update jobs (BackgroundTasks threads)
    started,          \* number of update jobs accepted so far
    stamp,            \* datetime.now(): strictly increasing
    \* ---- monolithic hub-api/server.py
    leg_sessions,     \* server.valid_sessions
    leg_cleanup,      \* server.session_cleanup_enabled
    leg_jobs,         \* routes whose effect (thread, file write) has happened
    leg_resp,         \* the last response sent
    \* ---- rollback routes (routers/services.py)
    rollback,         \* the background rollback job
    rb_resp,          \* the last response of a rollback route
    \* ---- secrets store (routers/auth.py, routers/services.py)
    secrets_file,     \* the lines of settings.SECRETS_FILE
    sec_resp,         \* the last response of rotate-api-key or POST /theme
    \* ---- service-name routes (utils/process.py, routers/services.py)
    name_req,         \* the last request of a route that takes a service name
    \* ---- background pipelines (routers/services.py)
    pipe,             \* the background job of update-service, batch-update, master-update
    ack,              \* the response to the request that queued the job
    \* ---- synchronous maintenance routes and the metrics sampler
    maint,            \* the last response of POST /migrate or POST /clear-db
    metrics,          \* background.last_metrics_request, the clock, the last sampler tick
    \* ---- the static API key in memory, and the writers of the secrets file
    settings_key,     \* settings.HUB_API_KEY of the running process
    key_resp,         \* the last request that presented a static API key
    writers           \* rotate_api_key, update_theme, refresh_secrets between read and write

sessVars == <<clock, valid_sessions, cleanup_enabled, session_lock, sessions_file,
              sweeper, auth, handler, verify, issued,
              stale, exempt>>

updVars == <<rollback_enabled, rollback_file, head, image, job, started, stamp>>
legVars == <<leg_sessions, leg_cleanup, leg_jobs, leg_resp>>
rbVars == <<rollback, rb_resp>>
secVars == <<secrets_file, sec_resp>>
nameVars == <<name_req>>
pipeVars == <<pipe, ack>>
hubVars == <<maint, metrics, settings_key, key_resp, writers>>
opsVars == <<secVars, nameVars, pipeVars, hubVars>>
vars == <<sessVars, updVars, legVars, rbVars, opsVars>>

\* ------------------------------------------------------- pure operators

InTable(sessions, t) == t \in Tokens /\ sessions[t] # NoSession

\* variant: the expiry instant itself still counts as valid
TokenValidInclusive(flag, now, expiry) == (~flag) \/ now <= expiry

\* security.py:105-106: not cleanup_enabled or time.time() < valid_sessions[token]
TokenValid(flag, now, expiry) == (~flag) \/ now < expiry

\* security.py:119-122: the static key check
KeyValid(key) == key = "good"

\* security.py:108 / 111: slide the window, or delete the stale token
AuthSessions(sessions, tok, flag, now) ==
    IF TokenValid(flag, now, sessions[tok])
    THEN [sessions EXCEPT ![tok] = now + DefaultTimeout]
    ELSE [sessions EXCEPT ![tok] = NoSession]

\* security.py:109, 119-124: the role returned, or 401
AuthAnswer(sessions, tok, flag, now, key) ==
    IF InTable(sessions, tok) /\ TokenValid(flag, now, sessions[tok]) THEN "admin"
    ELSE IF KeyValid(key) THEN "api_key"
    ELSE "401"

\* variant: a token is swept at its expiry instant already
ExpiredInclusive(sessions, now) == {t \in Tokens : InTable(sessions, t) /\ now >= sessions[t]}

\* security.py:66-68: expired = [t for t, expiry in valid_sessions.items() if now > expiry]
Expired(sessions, now) == {t \in Tokens : InTable(sessions, t) /\ now > sessions[t]}

\* security.py:70-71
Purge(sessions, now) ==
    [t \in Tokens |-> IF t \in Expired(sessions, now) THEN NoSession ELSE sessions[t]]

\* security.py:28-42: load_sessions keeps the entries of the document whose
\* expiry is later than the clock
LoadSessions(document, now) ==
    [t \in Tokens |-> IF document[t] # NoSession /\ document[t] > now
                      THEN document[t] ELSE NoSession]

\* history variables, recomputed from the new state by every step
Track ==
    /\ UNCHANGED <<updVars, legVars, rbVars, opsVars>>
    /\ stale' = stale \cup {t \in Tokens : /\ InTable(valid_sessions', t)
                                        /\ cleanup_enabled'
                                        /\ clock' >= valid_sessions'[t]}

IdleAuth == [pc |-> "idle", tok |-> NoToken, key |-> "none", flag |-> FALSE, role |-> "none"]
IdleVerify == [pc |-> "idle", token |-> NoToken, timeout |-> 0]

\* ------------------------------------------------------------------ Init

InitSessions ==
    /\ clock = 0
    /\ valid_sessions = [t \in Tokens |-> NoSession]
    /\ cleanup_enabled = TRUE
    /\ session_lock = "free"
    /\ sessions_file = [t \in Tokens |-> NoSession]
    /\ sweeper = [pc |-> "sleep", now |-> 0]
    /\ auth = IdleAuth
    /\ handler = "none"
    /\ verify = IdleVerify
    /\ issued = 0
    /\ stale = {}
    /\ exempt = {}

\* --------------------------------------------------------------- actions

\* the wall clock advances
Tick ==
    /\ clock < MaxTime
    /\ clock' = clock + 1
    /\ UNCHANGED <<valid_sessions, cleanup_enabled, session_lock, sessions_file,
                   sweeper, auth, handler, verify, issued, exempt>>
    /\ Track

\* variant: the session is created before the password is compared
VerifyAdminRejectLate ==
    /\ verify.pc = "idle"
    /\ issued < MaxTokens
    /\ issued' = issued + 1
    /\ valid_sessions' = [valid_sessions EXCEPT ![issued + 1] = clock + DefaultTimeout]
    /\ verify' = [IdleVerify EXCEPT !.pc = "rejected"]
    /\ UNCHANGED <<clock, cleanup_enabled, session_lock, sessions_file, sweeper,
                   auth, handler, exempt>>
    /\ Track

\* auth.py:47-51, 73-74: wrong password (or no admin secret configured): the
\* else branch raises 401; create_session is not called
VerifyAdminReject ==
    /\ verify.pc = "idle"
    /\ verify' = [IdleVerify EXCEPT !.pc = "rejected"]
    /\ UNCHANGED <<clock, valid_sessions, cleanup_enabled, session_lock,
                   sessions_file, sweeper, auth, handler, issued, exempt>>
    /\ Track

\* auth.py:47-64, security.py:162: password accepted, timeout read from
\* theme.json (or the default), a fresh token generated
VerifyAdminAccept(timeout) ==
    /\ verify.pc = "idle"
    /\ issued < MaxTokens
    /\ issued' = issued + 1
    /\ verify' = [pc |-> "create", token |-> issued + 1, timeout |-> timeout]
    /\ UNCHANGED <<clock, valid_sessions, cleanup_enabled, session_lock,
                   sessions_file, sweeper, auth, handler, exempt>>
    /\ Track

\* security.py:163-164: with session_lock: valid_sessions[token] = time.time() + timeout
CreateSession ==
    /\ verify.pc = "create"
    /\ session_lock = "free"
    /\ valid_sessions' = [valid_sessions EXCEPT ![verify.token] = clock + verify.timeout]
    /\ verify' = [verify EXCEPT !.pc = "save", !.timeout = 0]
    /\ UNCHANGED <<clock, cleanup_enabled, session_lock, sessions_file, sweeper,
                   auth, handler, issued, exempt>>
    /\ Track

\* security.py:45-57: save_sessions, called by create_session (line 165) and by
\* the sweeper (line 73).  It takes session_lock itself (line 49); the lock is a
\* plain threading.Lock, so a caller that already holds it waits for ever.
SaveSessions(caller) ==
    /\ session_lock = "free"
    /\ (IF caller = "verify" THEN verify.pc ELSE sweeper.pc) = "save"
    /\ verify' = IF caller = "verify" THEN [verify EXCEPT !.pc = "ret"] ELSE verify
    /\ sweeper' = IF caller = "sweeper" THEN [sweeper EXCEPT !.pc = "sleep"] ELSE sweeper
    /\ sessions_file' = valid_sessions
    /\ UNCHANGED <<clock, valid_sessions, cleanup_enabled, session_lock, auth,
                   handler, issued, exempt>>
    /\ Track

\* auth.py:66-74: verify_admin answers {success, token, cleanup}, or the 401
VerifyReturn ==
    /\ verify.pc \in {"ret", "rejected"}
    /\ verify' = IdleVerify
    /\ UNCHANGED <<clock, valid_sessions, cleanup_enabled, session_lock,
                   sessions_file, sweeper, auth, handler, issued, exempt>>
    /\ Track

\* tokens a client can present: those verify_admin has returned
Returned(t) == t \in 1..issued /\ ~(verify.pc # "idle" /\ verify.token = t)

Routes == {"read", "toggle_on", "toggle_off"}

\* security.py:101-102, 119-124: no session token presented
AuthNoToken(key) ==
    /\ auth.pc = "idle"
    /\ auth' = [IdleAuth EXCEPT !.pc = "done",
                  !.role = AuthAnswer(valid_sessions, NoToken, FALSE, clock, key)]
    /\ UNCHANGED <<clock, valid_sessions, cleanup_enabled, session_lock,
                   sessions_file, sweeper, handler, verify, issued, exempt>>
    /\ Track

\* security.py:101-103: a request presenting a session token reaches session_lock
AuthBegin(tok, key) ==
    /\ auth.pc = "idle"
    /\ Returned(tok)
    /\ auth' = [IdleAuth EXCEPT !.pc = "wait", !.tok = tok, !.key = key]
    /\ UNCHANGED <<clock, valid_sessions, cleanup_enabled, session_lock,
                   sessions_file, sweeper, handler, verify, issued, exempt>>
    /\ Track

\* security.py:103-105, 112-124: lock taken; an unknown token falls through to the
\* key check, a known one has the cleanup flag read
AuthEnter ==
    /\ auth.pc = "wait"
    /\ session_lock = "free"
    /\ IF InTable(valid_sessions, auth.tok)
       THEN /\ session_lock' = "auth"
            /\ auth' = [auth EXCEPT !.pc = "locked", !.flag = cleanup_enabled]
       ELSE /\ auth' = [IdleAuth EXCEPT !.pc = "done", !.tok = auth.tok,
                          !.role = AuthAnswer(valid_sessions, auth.tok, FALSE,
                                              clock, auth.key)]
            /\ UNCHANGED session_lock
    /\ UNCHANGED <<clock, valid_sessions, cleanup_enabled, sessions_file, sweeper,
                   handler, verify, issued, exempt>>
    /\ Track

\* security.py:105-111, 119-124: expiry compared, window slid or token deleted,
\* lock released, role returned
AuthDecide ==
    /\ auth.pc = "locked"
    /\ valid_sessions' = AuthSessions(valid_sessions, auth.tok, auth.flag, clock)
    /\ auth' = [IdleAuth EXCEPT !.pc = "done", !.tok = auth.tok,
                  !.role = AuthAnswer(valid_sessions, auth.tok, auth.flag,
                                      clock, auth.key)]
    /\ session_lock' = "free"
    /\ UNCHANGED <<clock, cleanup_enabled, sessions_file, sweeper, handler,
                   verify, issued, exempt>>
    /\ Track

\* auth.py:78-80 (Depends(get_admin_user)), security.py:148-153: the handler
\* of a mutation route is started only for the roles admin and api_key
Dispatch(role, route) ==
    IF role \in {"admin", "api_key"} /\ route # "read"
    THEN handler' = route
    ELSE UNCHANGED handler

\* the dependency has answered: 401, or the route's handler goes to the thread pool
AuthReturn(route) ==
    /\ auth.pc = "done"
    /\ route # "read" => handler = "none"
    /\ Dispatch(auth.role, route)
    /\ auth' = IdleAuth
    /\ UNCHANGED <<clock, valid_sessions, cleanup_enabled, session_lock,
                   sessions_file, sweeper, verify, issued, exempt>>
    /\ Track

\* auth.py:90-93: session_state["cleanup_enabled"] = request.enabled (no lock)
ToggleSessionCleanup ==
    /\ handler # "none"
    /\ cleanup_enabled' = (handler = "toggle_on")
    /\ handler' = "none"
    /\ exempt' = IF handler = "toggle_off"
                 THEN exempt \cup {t \in Tokens : InTable(valid_sessions, t)}
                 ELSE {}
    /\ UNCHANGED <<clock, valid_sessions, session_lock, sessions_file, sweeper,
                   auth, verify, issued>>
    /\ Track

\* security.py:62-64, 74: the sweeper wakes, reads the flag (no lock) and the clock
SweeperWake ==
    /\ sweeper.pc = "sleep"
    /\ sweeper' = IF cleanup_enabled THEN [pc |-> "armed", now |-> clock] ELSE sweeper
    /\ UNCHANGED <<clock, valid_sessions, cleanup_enabled, session_lock,
                   sessions_file, auth, handler, verify, issued, exempt>>
    /\ Track

\* security.py:65-73: lock taken, expired tokens deleted; if any was deleted
\* save_sessions is called with the lock still held
SweeperPurge ==
    /\ sweeper.pc = "armed"
    /\ session_lock = "free"
    /\ valid_sessions' = Purge(valid_sessions, sweeper.now)
    /\ IF Expired(valid_sessions, sweeper.now) # {}
       THEN /\ session_lock' = "sweeper"
            /\ sweeper' = [pc |-> "save", now |-> 0]
       ELSE /\ UNCHANGED session_lock
            /\ sweeper' = [pc |-> "sleep", now |-> 0]
    /\ UNCHANGED <<clock, cleanup_enabled, sessions_file, auth, handler, verify,
                   issued, exempt>>
    /\ Track

NextSessions ==
    \/ Tick
    \/ VerifyAdminReject
    \/ \E timeout \in TimeoutChoices : VerifyAdminAccept(timeout)
    \/ CreateSession
    \/ \E caller \in {"verify", "sweeper"} : SaveSessions(caller)
    \/ VerifyReturn
    \/ \E key \in Keys : AuthNoToken(key)
    \/ \E tok \in Tokens, key \in {"none", "good"} : AuthBegin(tok, key)
    \/ AuthEnter
    \/ AuthDecide
    \/ \E route \in Routes : AuthReturn(route)
    \/ ToggleSessionCleanup
    \/ SweeperWake
    \/ SweeperPurge

\* ================================================================ update
\* The update / rollback engine, app/routers/services.py.

Services == {"wikiless", "adguard"}
\* os.path.exists(/app/sources/<service>/.git), services.py:268
HasGit(s) == s = "wikiless"
JobIds == {"a", "b"}
NoFile == [hist |-> <<>>, readable |-> FALSE, size |-> -1]
Min(a, b) == IF a < b THEN a ELSE b
Take(seq, n) == SubSeq(seq, 1, Min(n, Len(seq)))

\* A history document: hist is the "history" list; readable is FALSE for an empty
\* or garbled file (json.load raises); size is the length of the file, counted in
\* history entries.
Readable(f) == f # NoFile /\ f.readable
Doc(h) == [hist |-> h, readable |-> TRUE, size |-> Len(h)]
Garbled(n) == [hist |-> <<>>, readable |-> FALSE, size |-> n]

\* services.py:295-302: history = [] unless the file exists and parses
Stored(f) == IF Readable(f) THEN f.hist ELSE <<>>

\* services.py:292: if rollback_enabled and (prev_hash or prev_image)
ShouldCheckpoint(enabled, hash, img) == enabled /\ (hash # 0 \/ img # 0)

\* variant: the list is not cut after the insert
CheckpointUncut(history, entry) == <<entry>> \o history

\* services.py:304-311: new_entry; history.insert(0, new_entry); history = history[:5]
Checkpoint(history, entry) == Take(<<entry>> \o history, HistoryLimit)

\* services.py:313-317: json.dump through a descriptor opened (and the file
\* truncated) earlier: the text lands at offset 0, and what another writer has
\* put beyond its end since then stays in the file
Dumped(f, history) ==
    IF Len(history) >= f.size THEN Doc(history) ELSE Garbled(f.size)

\* services.py:502-507
RollbackStatus(s) == rollback_file[s] # NoFile

\* services.py:510-527: the history, an image-only entry shown with hash = image
ListEntry(e) == IF e.hash = 0 /\ e.img # 0 THEN [e EXCEPT !.hash = e.img] ELSE e
RollbackList(s) ==
    [i \in 1..Len(Stored(rollback_file[s])) |-> ListEntry(Stored(rollback_file[s])[i])]

\* variant: the scan does not stop at the first match
TargetIndexLastMatch(history, target) ==
    IF target # 0 /\ {i \in 1..Len(history) :
                        history[i].hash = target \/ history[i].img = target} # {}
    THEN CHOOSE i \in 1..Len(history) :
           /\ history[i].hash = target \/ history[i].img = target
           /\ \A k \in (i + 1)..Len(history) :
                 history[k].hash # target /\ history[k].img # target
    ELSE IF history # <<>> THEN 1 ELSE 0

\* variant: without a match the oldest entry is taken
TargetIndexOldest(history, target) ==
    IF target # 0 /\ {i \in 1..Len(history) :
                        history[i].hash = target \/ history[i].img = target} # {}
    THEN CHOOSE i \in 1..Len(history) :
           /\ history[i].hash = target \/ history[i].img = target
           /\ \A k \in 1..(i - 1) : history[k].hash # target /\ history[k].img # target
    ELSE Len(history)

\* services.py:414-426: the entry a rollback restores
Matches(history, target) ==
    {i \in 1..Len(history) : history[i].hash = target \/ history[i].img = target}
TargetIndex(history, target) ==
    IF target # 0 /\ Matches(history, target) # {}
    THEN CHOOSE i \in Matches(history, target) : \A k \in Matches(history, target) : i <= k
    ELSE IF history # <<>> THEN 1 ELSE 0

IdleJob == [pc |-> "idle", svc |-> "none", hash |-> 0, img |-> 0, history |-> <<>>,
            before |-> <<>>, solo |-> TRUE]
Active(j) == job[j].pc # "idle"

\* The documents outlive the process: it starts with none, or with the history
\* that four earlier updates of wikiless have left.
EarlierHistory == [i \in 1..4 |-> [ts |-> 5 - i, hash |-> 1, img |-> 1]]

InitUpdateWith(enabled, earlier) ==
    /\ rollback_enabled = enabled
    /\ rollback_file = [s \in Services |->
                          IF s = "wikiless" /\ earlier # <<>> THEN Doc(earlier) ELSE NoFile]
    /\ stamp = Len(earlier)
    /\ head = [s \in Services |-> IF HasGit(s) THEN 1 ELSE 0]
    /\ image = [s \in Services |-> 1]
    /\ job = [j \in JobIds |-> IdleJob]
    /\ started = 0

InitUpdate ==
    \/ \E enabled \in BOOLEAN : InitUpdateWith(enabled, <<>>)
    \/ InitUpdateWith(TRUE, EarlierHistory)

\* services.py:228-246, 379-383: the request is accepted and _run_update queued.
\* before and solo are history variables: the stored history when the job starts,
\* and whether no other update job of the service has overlapped this one.
UpdateStart(j, s) ==
    /\ ~Active(j)
    /\ started < MaxJobs
    /\ started' = started + 1
    /\ job' = [k \in JobIds |->
                 IF k = j
                 THEN [IdleJob EXCEPT !.pc = "capture", !.svc = s,
                         !.before = Stored(rollback_file[s]),
                         !.solo = \A o \in JobIds \ {j} : ~(Active(o) /\ job[o].svc = s)]
                 ELSE IF Active(k) /\ job[k].svc = s
                      THEN [job[k] EXCEPT !.solo = FALSE]
                      ELSE job[k]]
    /\ UNCHANGED <<rollback_enabled, rollback_file, head, image, stamp>>
    /\ UNCHANGED <<sessVars, legVars, rbVars, opsVars>>

\* services.py:260-292: git rev-parse HEAD and docker inspect; either may fail
UpdateCapture(j, gitOk, imgOk) ==
    /\ job[j].pc = "capture"
    /\ LET s == job[j].svc
           h == IF HasGit(s) /\ gitOk THEN head[s] ELSE 0
           i == IF imgOk THEN image[s] ELSE 0
       IN job' = [job EXCEPT ![j].hash = h, ![j].img = i,
                    ![j].pc = IF ShouldCheckpoint(rollback_enabled, h, i)
                              THEN "read" ELSE "backup"]
    /\ UNCHANGED <<rollback_enabled, rollback_file, head, image, started, stamp>>
    /\ UNCHANGED <<sessVars, legVars, rbVars, opsVars>>

\* services.py:294-311: old history read, entry built and prepended, list cut
UpdateReadState(j) ==
    /\ job[j].pc = "read"
    /\ stamp' = stamp + 1
    /\ LET entry == [ts |-> stamp + 1, hash |-> job[j].hash, img |-> job[j].img]
       IN job' = [job EXCEPT ![j].pc = "open",
                    ![j].history = Checkpoint(Stored(rollback_file[job[j].svc]), entry)]
    /\ UNCHANGED <<rollback_enabled, rollback_file, head, image, started>>
    /\ UNCHANGED <<sessVars, legVars, rbVars, opsVars>>

\* services.py:313: open(state_file, 'w') empties the file
UpdateOpenState(j) ==
    /\ job[j].pc = "open"
    /\ rollback_file' = [rollback_file EXCEPT ![job[j].svc] = Garbled(0)]
    /\ job' = [job EXCEPT ![j].pc = "dump"]
    /\ UNCHANGED <<rollback_enabled, head, image, started, stamp>>
    /\ UNCHANGED <<sessVars, legVars, rbVars, opsVars>>

\* services.py:314-317: the document is written when the file is closed
UpdateDumpState(j) ==
    /\ job[j].pc = "dump"
    /\ rollback_file' = [rollback_file EXCEPT ![job[j].svc] =
                           Dumped(rollback_file[job[j].svc], job[j].history)]
    /\ job' = [job EXCEPT ![j].pc = "backup", ![j].history = <<>>]
    /\ UNCHANGED <<rollback_enabled, head, image, started, stamp>>
    /\ UNCHANGED <<sessVars, legVars, rbVars, opsVars>>

Outcomes == {"ok", "nonzero", "timeout"}

\* services.py:329-331, 375-377: migrate.sh backup through run_command
\* (check=False): a non-zero exit is ignored, a timeout raises and ends the job
UpdateBackup(j, outcome) ==
    /\ job[j].pc = "backup"
    /\ job' = [job EXCEPT ![j].pc = IF outcome = "timeout" THEN "failed" ELSE "source"]
    /\ UNCHANGED <<rollback_enabled, rollback_file, head, image, started, stamp>>
    /\ UNCHANGED <<sessVars, legVars, rbVars, opsVars>>

\* services.py:333-358: fetch, checkout, reset, pull in a source-tracked service
UpdateSource(j, outcome) ==
    /\ job[j].pc = "source"
    /\ LET s == job[j].svc IN
         IF ~HasGit(s)
         THEN /\ job' = [job EXCEPT ![j].pc = "rebuild"]
              /\ UNCHANGED head
         ELSE /\ job' = [job EXCEPT ![j].pc = IF outcome = "timeout" THEN "failed"
                                              ELSE "rebuild"]
              /\ head' = IF outcome = "ok" /\ head[s] < MaxRev
                         THEN [head EXCEPT ![s] = head[s] + 1] ELSE head
    /\ UNCHANGED <<rollback_enabled, rollback_file, image, started, stamp>>
    /\ UNCHANGED <<sessVars, legVars, rbVars, opsVars>>

\* services.py:360-377: compose pull, compose up -d --build
UpdateRebuild(j, outcome) ==
    /\ job[j].pc = "rebuild"
    /\ LET s == job[j].svc IN
         /\ job' = [job EXCEPT ![j].pc = IF outcome = "timeout" THEN "failed" ELSE "done"]
         /\ image' = IF outcome = "ok" /\ image[s] < MaxRev
                     THEN [image EXCEPT ![s] = image[s] + 1] ELSE image
    /\ UNCHANGED <<rollback_enabled, rollback_file, head, started, stamp>>
    /\ UNCHANGED <<sessVars, legVars, rbVars, opsVars>>

\* the background task returns
UpdateEnd(j) ==
    /\ job[j].pc \in {"done", "failed"}
    /\ job' = [job EXCEPT ![j] = IdleJob]
    /\ UNCHANGED <<rollback_enabled, rollback_file, head, image, started, stamp>>
    /\ UNCHANGED <<sessVars, legVars, rbVars, opsVars>>

\* services.py:386-499: rollback-service.  404 without a history document;
\* otherwise the job reads the document, picks the target, checks the revision
\* out, re-tags the image and restarts.  It never writes the document.
Rollback(s, target, ok) ==
    /\ RollbackStatus(s)
    /\ LET history == Stored(rollback_file[s])
           i == TargetIndex(history, target)
       IN IF ~Readable(rollback_file[s]) \/ i = 0 \/ ~ok
          THEN UNCHANGED <<head, image>>
          ELSE /\ head' = IF history[i].hash # 0 /\ HasGit(s)
                          THEN [head EXCEPT ![s] = history[i].hash] ELSE head
               /\ image' = IF history[i].img # 0
                           THEN [image EXCEPT ![s] = history[i].img] ELSE image
    /\ UNCHANGED <<rollback_enabled, rollback_file, job, started, stamp>>
    /\ UNCHANGED <<sessVars, legVars, rbVars, opsVars>>

NextUpdate ==
    \/ \E j \in JobIds, s \in Services : UpdateStart(j, s)
    \/ \E j \in JobIds, gitOk \in BOOLEAN, imgOk \in BOOLEAN : UpdateCapture(j, gitOk, imgOk)
    \/ \E j \in JobIds : UpdateReadState(j)
    \/ \E j \in JobIds : UpdateOpenState(j)
    \/ \E j \in JobIds : UpdateDumpState(j)
    \/ \E j \in JobIds, outcome \in Outcomes : UpdateBackup(j, outcome)
    \/ \E j \in JobIds, outcome \in Outcomes : UpdateSource(j, outcome)
    \/ \E j \in JobIds, outcome \in Outcomes : UpdateRebuild(j, outcome)
    \/ \E j \in JobIds : UpdateEnd(j)
    \/ \E s \in Services, target \in 0..MaxRev, ok \in BOOLEAN : Rollback(s, target, ok)

\* ============================================================== rollback
\* The rollback routes step by step, app/routers/services.py:386-527.

\* histories a service's document may hold: up to MaxHist entries, identifiers
\* in 1..MaxId, each entry with a revision, an image id or both
IdPairs == {p \in (0..MaxId) \X (0..MaxId) : p # <<0, 0>>}
HistoriesOf(n) ==
    {[i \in 1..n |-> [ts |-> n - i + 1, hash |-> k[i][1], img |-> k[i][2]]] :
        k \in [1..n -> IdPairs]}
Histories == UNION {HistoriesOf(n) : n \in 0..MaxHist}

\* log, bad, checkout and build are history variables: the messages the job has
\* logged, the sub-steps that exited non-zero or timed out, whether the
\* force-checkout ran, whether the restart command carried --build
IdleRollback == [pc |-> "idle", svc |-> "none", target |-> 0, index |-> 0,
                 hash |-> 0, img |-> 0, log |-> {}, bad |-> {},
                 checkout |-> FALSE, build |-> FALSE]
NoResponse == [route |-> "none", svc |-> "none", code |-> 0, available |-> FALSE,
               history |-> <<>>]

InitRollback ==
    /\ rollback = IdleRollback
    /\ rb_resp = NoResponse

\* the documents earlier updates have left: none, one cut short by an
\* overlapping writer, or a history; the image-only service has at most one entry
InitRollbackFiles ==
    /\ rollback_enabled = TRUE
    /\ \E f \in {NoFile, Garbled(1)} \cup {Doc(h) : h \in Histories \ {<<>>}},
          g \in {NoFile, Doc(<<[ts |-> 1, hash |-> 0, img |-> MaxId]>>)} :
          rollback_file = [s \in Services |-> IF HasGit(s) THEN f ELSE g]
    /\ head = [s \in Services |-> IF HasGit(s) THEN 1 ELSE 0]
    /\ image = [s \in Services |-> 1]
    /\ job = [j \in JobIds |-> IdleJob]
    /\ started = 0
    /\ stamp = 0

rbFrame == <<rollback_enabled, rollback_file, job, started, stamp, sessVars, legVars,
             opsVars>>

\* variant: the route parses the document to decide whether a rollback point exists
HasStateFileParsed(s) == Readable(rollback_file[s])

\* services.py:404-405: os.path.exists(state_file)
HasStateFile(s) == rollback_file[s] # NoFile

\* services.py:400-407, 495-499: 404 without a document, else the job is queued
RollbackRequest(s, target) ==
    /\ rollback.pc = "idle"
    /\ IF HasStateFile(s)
       THEN /\ rollback' = [IdleRollback EXCEPT !.pc = "load", !.svc = s,
                              !.target = target]
            /\ rb_resp' = [NoResponse EXCEPT !.route = "rollback-service", !.svc = s,
                             !.code = 200]
       ELSE /\ UNCHANGED rollback
            /\ rb_resp' = [NoResponse EXCEPT !.route = "rollback-service", !.svc = s,
                             !.code = 404]
    /\ UNCHANGED <<head, image, rbFrame>>

\* variant: the state about to be discarded is recorded as a new checkpoint
RollbackLoadCheckpointing ==
    /\ rollback.pc = "load"
    /\ rollback_file' = [rollback_file EXCEPT ![rollback.svc] =
          Doc(Checkpoint(Stored(rollback_file[rollback.svc]),
                         [ts |-> 0, hash |-> head[rollback.svc],
                          img |-> image[rollback.svc]]))]
    /\ LET history == Stored(rollback_file[rollback.svc])
           i == TargetIndex(history, rollback.target)
       IN rollback' = IF ~Readable(rollback_file[rollback.svc]) \/ i = 0
                      THEN [rollback EXCEPT !.pc = "failed"]
                      ELSE [rollback EXCEPT !.pc = "source", !.index = i,
                              !.hash = history[i].hash, !.img = history[i].img]
    /\ UNCHANGED <<rb_resp, head, image, rollback_enabled, job, started, stamp,
                   sessVars, legVars, opsVars>>

\* services.py:411-432: the document is read and the target entry picked; a
\* document that does not parse, or an empty history, ends the job (line 490)
RollbackLoad ==
    /\ rollback.pc = "load"
    /\ LET history == Stored(rollback_file[rollback.svc])
           i == TargetIndex(history, rollback.target)
       IN rollback' = IF ~Readable(rollback_file[rollback.svc]) \/ i = 0
                      THEN [rollback EXCEPT !.pc = "failed", !.log = {"failed"}]
                      ELSE [rollback EXCEPT !.pc = "source", !.index = i,
                              !.hash = history[i].hash, !.img = history[i].img]
    /\ UNCHANGED <<rb_resp, head, image, rbFrame>>

\* process.py:35-57 under the default check=False: what the caller does after
\* a command: "raise" ends the job in its except clause, "return" goes on
AfterCommand(outcome) == IF outcome = "timeout" THEN "raise" ELSE "return"
Failed(step, outcome) == IF outcome = "ok" THEN {} ELSE {step}

\* services.py:440-450: git checkout -f <hash> in a source-tracked service,
\* then "Source code reverted." is logged
RollbackSource(outcome) ==
    /\ rollback.pc = "source"
    /\ LET s == rollback.svc IN
         IF rollback.hash # 0 /\ HasGit(s)
         THEN /\ rollback' = [rollback EXCEPT
                                !.pc = IF AfterCommand(outcome) = "raise"
                                       THEN "failed" ELSE "image",
                                !.checkout = TRUE,
                                !.bad = @ \cup Failed("checkout", outcome),
                                !.log = @ \cup (IF AfterCommand(outcome) = "raise"
                                                THEN {"failed"} ELSE {"reverted"})]
              /\ head' = IF outcome = "ok"
                         THEN [head EXCEPT ![s] = rollback.hash] ELSE head
         ELSE /\ rollback' = [rollback EXCEPT !.pc = "image"]
              /\ UNCHANGED head
    /\ UNCHANGED <<rb_resp, image, rbFrame>>

\* services.py:452-475: docker tag <image id> <image name> inside its own
\* try/except: what it raises is logged as a warning, and the job goes on
RollbackImage(outcome) ==
    /\ rollback.pc = "image"
    /\ image' = IF rollback.img # 0 /\ outcome = "ok"
                THEN [image EXCEPT ![rollback.svc] = rollback.img] ELSE image
    /\ rollback' = IF rollback.img = 0
                   THEN [rollback EXCEPT !.pc = "restart"]
                   ELSE [rollback EXCEPT
                           !.pc = "restart",
                           !.bad = @ \cup Failed("tag", outcome),
                           !.log = @ \cup (IF AfterCommand(outcome) = "raise"
                                           THEN {"image-warning"}
                                           ELSE {"image-reverted"})]
    /\ UNCHANGED <<rb_resp, head, rbFrame>>

\* variant: the restart always rebuilds, as the update job's does
UpCommandBuildsAlways(t_hash) == TRUE

\* services.py:477-482: up_cmd gets --build if the entry has a hash
UpCommandBuilds(t_hash) == t_hash # 0

\* services.py:477-493: compose up -d [--build], then "rollback completed" is
\* logged, or "rollback failed" by the except clause
RollbackRestart(outcome) ==
    /\ rollback.pc = "restart"
    /\ rollback' = [rollback EXCEPT
                      !.pc = IF AfterCommand(outcome) = "raise" THEN "failed" ELSE "done",
                      !.build = UpCommandBuilds(rollback.hash),
                      !.bad = @ \cup Failed("restart", outcome),
                      !.log = @ \cup (IF AfterCommand(outcome) = "raise"
                                      THEN {"failed"} ELSE {"completed"})]
    /\ UNCHANGED <<rb_resp, head, image, rbFrame>>

\* the background task returns
RollbackEnd ==
    /\ rollback.pc \in {"done", "failed"}
    /\ rollback' = IdleRollback
    /\ UNCHANGED <<rb_resp, head, image, rbFrame>>

\* services.py:502-507: GET /rollback-status
RollbackStatusRead(s) ==
    /\ rb_resp' = [NoResponse EXCEPT !.route = "rollback-status", !.svc = s,
                     !.code = 200, !.available = RollbackStatus(s)]
    /\ UNCHANGED <<rollback, head, image, rbFrame>>

\* services.py:510-527: GET /rollback-list
RollbackListRead(s) ==
    /\ rb_resp' = [NoResponse EXCEPT !.route = "rollback-list", !.svc = s,
                     !.code = 200, !.history = RollbackList(s)]
    /\ UNCHANGED <<rollback, head, image, rbFrame>>

NextRollback ==
    \/ \E s \in Services, target \in 0..(MaxId + 1) : RollbackRequest(s, target)
    \/ RollbackLoad
    \/ \E outcome \in Outcomes : RollbackSource(outcome)
    \/ \E outcome \in Outcomes : RollbackImage(outcome)
    \/ \E outcome \in Outcomes : RollbackRestart(outcome)
    \/ RollbackEnd
    \/ \E s \in Services : RollbackStatusRead(s)
    \/ \E s \in Services : RollbackListRead(s)

\* ================================================================ legacy
\* The request gate of the monolithic hub-api/server.py (BaseHTTPRequestHandler).

LegacyRoutes == {"toggle-session-cleanup", "uninstall", "update-service",
                 "master-update", "migrate", "status"}
LegacyMethod(route) ==
    IF route \in {"master-update", "migrate", "status"} THEN "GET" ELSE "POST"
\* of the routes modelled, those that change state or start a job
LegacyMutations == LegacyRoutes \ {"status"}
\* server.py:529: GET paths answered without credentials (the ones modelled)
LegacyOpenGet == {"status", "master-update"}

\* server.py:537-540
LegacyTokenValid(sessions, flag, now, tok) ==
    InTable(sessions, tok) /\ ((~flag) \/ now < sessions[tok])

\* server.py:526-552: _check_auth
LegacyCheckAuth(method, route, tok, key) ==
    \/ method = "GET" /\ route \in LegacyOpenGet
    \/ LegacyTokenValid(leg_sessions, leg_cleanup, clock, tok)
    \/ KeyValid(key)

\* server.py:541-543: _check_auth deletes a known token that has expired
LegacyAuthSessions(method, route, tok) ==
    IF /\ ~(method = "GET" /\ route \in LegacyOpenGet)
       /\ InTable(leg_sessions, tok)
       /\ ~LegacyTokenValid(leg_sessions, leg_cleanup, clock, tok)
    THEN [leg_sessions EXCEPT ![tok] = NoSession]
    ELSE leg_sessions

\* the request carries a valid session token or the valid API key
LegacyCredentialed(tok, key) ==
    LegacyTokenValid(leg_sessions, leg_cleanup, clock, tok) \/ KeyValid(key)

LegacyResponse(route, tok, key, code) ==
    [route |-> route, authed |-> LegacyCredentialed(tok, key), code |-> code]

legFrame == <<valid_sessions, cleanup_enabled, session_lock, sessions_file,
              sweeper, auth, handler, verify, stale, exempt>>

InitLegacy ==
    /\ leg_sessions = [t \in Tokens |-> NoSession]
    /\ leg_cleanup = TRUE
    /\ leg_jobs = {}
    /\ leg_resp = [route |-> "none", authed |-> FALSE, code |-> 0]

LegacyTick ==
    /\ clock < MaxTime
    /\ clock' = clock + 1
    /\ UNCHANGED <<legVars, issued, legFrame, updVars, rbVars, opsVars>>

\* server.py:1162-1189: POST /verify-admin, public
LegacyVerifyAdmin(ok, timeout) ==
    /\ ok => issued < MaxTokens
    /\ IF ok
       THEN /\ issued' = issued + 1
            /\ leg_sessions' = [leg_sessions EXCEPT ![issued + 1] = clock + timeout]
            /\ leg_resp' = [route |-> "verify-admin", authed |-> FALSE, code |-> 200]
       ELSE /\ UNCHANGED <<issued, leg_sessions>>
            /\ leg_resp' = [route |-> "verify-admin", authed |-> FALSE, code |-> 401]
    /\ UNCHANGED <<leg_cleanup, leg_jobs, clock, legFrame, updVars, rbVars, opsVars>>

\* server.py:1133-1193, 1355: do_POST.  /toggle-session-cleanup and /uninstall
\* are answered before _check_auth is called (line 1191).
LegacyPost(route, tok, key, enabled) ==
    /\ LegacyMethod(route) = "POST"
    /\ tok \in 0..issued
    /\ IF route = "toggle-session-cleanup"
       THEN /\ leg_cleanup' = enabled
            /\ leg_resp' = LegacyResponse(route, tok, key, 200)
            /\ UNCHANGED <<leg_sessions, leg_jobs>>
       ELSE IF route = "uninstall"
       THEN /\ leg_jobs' = leg_jobs \cup {route}
            /\ leg_resp' = LegacyResponse(route, tok, key, 200)
            /\ UNCHANGED <<leg_sessions, leg_cleanup>>
       ELSE /\ leg_sessions' = LegacyAuthSessions("POST", route, tok)
            /\ UNCHANGED leg_cleanup
            /\ IF LegacyCheckAuth("POST", route, tok, key)
               THEN /\ leg_jobs' = leg_jobs \cup {route}
                    /\ leg_resp' = LegacyResponse(route, tok, key, 200)
               ELSE /\ UNCHANGED leg_jobs
                    /\ leg_resp' = LegacyResponse(route, tok, key, 401)
    /\ UNCHANGED <<clock, issued, legFrame, updVars, rbVars, opsVars>>

\* server.py:554-557, 773-805, 864-878: do_GET
LegacyGet(route, tok, key) ==
    /\ LegacyMethod(route) = "GET"
    /\ tok \in 0..issued
    /\ leg_sessions' = LegacyAuthSessions("GET", route, tok)
    /\ IF LegacyCheckAuth("GET", route, tok, key)
       THEN /\ leg_jobs' = IF route \in LegacyMutations
                           THEN leg_jobs \cup {route} ELSE leg_jobs
            /\ leg_resp' = LegacyResponse(route, tok, key, 200)
       ELSE /\ UNCHANGED leg_jobs
            /\ leg_resp' = LegacyResponse(route, tok, key, 401)
    /\ UNCHANGED <<leg_cleanup, clock, issued, legFrame, updVars, rbVars, opsVars>>

\* server.py:24-33: the sweeper thread of the monolith (no lock, no save)
LegacySweep ==
    /\ leg_sessions' = IF leg_cleanup
                       THEN [t \in Tokens |->
                               IF InTable(leg_sessions, t) /\ clock > leg_sessions[t]
                               THEN NoSession ELSE leg_sessions[t]]
                       ELSE leg_sessions
    /\ UNCHANGED <<leg_cleanup, leg_jobs, leg_resp, clock, issued, legFrame, updVars, rbVars, opsVars>>

NextLegacy ==
    \/ LegacyTick
    \/ \E ok \in BOOLEAN, timeout \in TimeoutChoices : LegacyVerifyAdmin(ok, timeout)
    \/ \E route \in LegacyRoutes, tok \in 0..MaxTokens, key \in {"none", "good"},
          enabled \in BOOLEAN : LegacyPost(route, tok, key, enabled)
    \/ \E route \in LegacyRoutes, tok \in 0..MaxTokens, key \in {"none", "good"} :
          LegacyGet(route, tok, key)
    \/ LegacySweep

\* =============================================================== secrets
\* The secrets store: rotate_api_key (app/routers/auth.py:96-146), the theme
\* synchronisation (app/routers/services.py:104-157) and the rotate-api-key
\* route of hub-api/server.py (1436-1460).  A value is a sequence of
\* characters.  "a" is an alphanumeric character, the members of Punctuation
\* are not; a word such as "stable" stands for its run of alphanumeric
\* characters where only the class matters.

MaxLines == 2
MinKeyLength == 16

Rep(c, n) == [i \in 1..n |-> c]
Punctuation == {"-", "_", "/", ".", "'", "\""}
IsAlnum(c) == c \notin Punctuation
Alnum(text) == SelectSeq(text, IsAlnum)

\* str.strip(chars): leading and trailing characters of the class are removed
RECURSIVE Strip(_, _)
Strip(v, c) ==
    IF v = <<>> THEN v
    ELSE IF Head(v) = c THEN Strip(Tail(v), c)
    ELSE IF v[Len(v)] = c THEN Strip(SubSeq(v, 1, Len(v) - 1), c)
    ELSE v

\* auth.py:123, services.py:134: v.strip("'").strip('"')
Unquote(raw) == Strip(Strip(raw, "'"), "\"")
\* auth.py:137, services.py:150: f"{k}='{v}'\n"
Quote(v) == <<"'">> \o v \o <<"'">>

\* a line of the file: with '=' a key and the raw text after it, or without
Line(k, raw) == [eq |-> TRUE, k |-> k, raw |-> raw]
Comment == [eq |-> FALSE, k |-> "", raw |-> <<>>]

\* file_secrets[k] = v: a dict keeps the position of a key it already holds
Put(d, k, v) ==
    IF \E i \in DOMAIN d : d[i].k = k
    THEN [i \in DOMAIN d |-> IF d[i].k = k THEN [k |-> k, v |-> v] ELSE d[i]]
    ELSE Append(d, [k |-> k, v |-> v])

\* auth.py:116-124, services.py:128-135: the file read into file_secrets
RECURSIVE ReadSecrets(_)
ReadSecrets(lines) ==
    IF lines = <<>> THEN <<>>
    ELSE LET l == lines[Len(lines)]
             d == ReadSecrets(SubSeq(lines, 1, Len(lines) - 1))
         IN IF l.eq THEN Put(d, l.k, Unquote(l.raw)) ELSE d

\* auth.py:131-137, services.py:145-150: the file rewritten from file_secrets
WriteSecrets(d) == [i \in DOMAIN d |-> Line(d[i].k, Quote(d[i].v))]

\* server.py:1443-1453: the monolithic server neither strips nor adds quotes
RECURSIVE LegacyReadSecrets(_)
LegacyReadSecrets(lines) ==
    IF lines = <<>> THEN <<>>
    ELSE LET l == lines[Len(lines)]
             d == LegacyReadSecrets(SubSeq(lines, 1, Len(lines) - 1))
         IN IF l.eq THEN Put(d, l.k, l.raw) ELSE d
LegacyWriteSecrets(d) == [i \in DOMAIN d |-> Line(d[i].k, d[i].v)]

\* what a re-read of the file yields: the set of (key, value) pairs
Secrets(lines) == {<<e.k, e.v>> : e \in {ReadSecrets(lines)[i] : i \in DOMAIN ReadSecrets(lines)}}
SecretKeys(lines) == {p[1] : p \in Secrets(lines)}
SecretValue(lines, k) == (CHOOSE p \in Secrets(lines) : p[1] = k)[2]

\* the files a process may find: up to MaxLines lines, each a comment or one of
\* four keys with a bare, a quoted or a doubly quoted value
SecretFiles ==
    LET names == {"HUB_API_KEY", "ODIDO_API_KEY", "WG_PASSWORD", "UPDATE_STRATEGY"}
        raws == {<<"a">>, <<"'", "a", "'">>, <<"\"", "'", "a", "'", "\"">>}
        lines == {Line(k, raw) : k \in names, raw \in raws} \cup {Comment}
    IN UNION {[1..n -> lines] : n \in 0..MaxLines}
KeyChoices == {<<>>, <<"-">>, Rep("a", MinKeyLength - 1), Rep("a", MinKeyLength),
               Rep("a", MinKeyLength) \o <<"-">>}
StrategyChoices == {<<>>, <<"stable">>, <<"latest">>, <<"-">>, <<"latest", "-">>}

NoSecResp == [route |-> "none", code |-> 0, input |-> <<>>]

InitSecrets ==
    /\ secrets_file = <<>>
    /\ sec_resp = NoSecResp

InitSecretFiles ==
    /\ secrets_file \in SecretFiles
    /\ sec_resp = NoSecResp

\* auth.py:107-114, 145-146: the key is stripped to its alphanumeric characters
\* and refused when fewer than 16 remain
KeyAccepted(new_key) == Len(Alnum(new_key)) >= MinKeyLength

\* auth.py:96-146
RotateApiKey(new_key) ==
    /\ IF KeyAccepted(new_key)
       THEN /\ secrets_file' = WriteSecrets(
                   Put(Put(ReadSecrets(secrets_file), "HUB_API_KEY", Alnum(new_key)),
                       "ODIDO_API_KEY", Alnum(new_key)))
            /\ sec_resp' = [route |-> "rotate", code |-> 200, input |-> new_key]
       ELSE /\ UNCHANGED secrets_file
            /\ sec_resp' = [route |-> "rotate", code |-> 400, input |-> new_key]
    /\ UNCHANGED <<sessVars, updVars, legVars, rbVars, nameVars, pipeVars, hubVars>>

\* services.py:120-155: POST /theme with theme.update_strategy and
\* theme.rollback_backup
SyncStrategy(strategy, rollback_backup) ==
    /\ IF strategy # <<>>
       THEN secrets_file' = WriteSecrets(
                Put(Put(ReadSecrets(secrets_file), "UPDATE_STRATEGY",
                        IF Alnum(strategy) = <<>> THEN <<"stable">> ELSE Alnum(strategy)),
                    "ROLLBACK_BACKUP_ENABLED",
                    IF rollback_backup THEN <<"true">> ELSE <<"false">>))
       ELSE UNCHANGED secrets_file
    /\ sec_resp' = [route |-> "theme", code |-> 200, input |-> strategy]
    /\ UNCHANGED <<sessVars, updVars, legVars, rbVars, nameVars, pipeVars, hubVars>>

\* server.py:1436-1460: any non-empty key is written
LegacyRotateApiKey(new_key) ==
    /\ IF new_key # <<>>
       THEN /\ secrets_file' = LegacyWriteSecrets(
                   Put(LegacyReadSecrets(secrets_file), "HUB_API_KEY", new_key))
            /\ sec_resp' = [route |-> "legacy-rotate", code |-> 200, input |-> new_key]
       ELSE /\ UNCHANGED secrets_file
            /\ sec_resp' = [route |-> "legacy-rotate", code |-> 400, input |-> new_key]
    /\ UNCHANGED <<sessVars, updVars, legVars, rbVars, nameVars, pipeVars, hubVars>>

NextSecrets ==
    \/ \E new_key \in KeyChoices : RotateApiKey(new_key)
    \/ \E strategy \in StrategyChoices, rollback_backup \in BOOLEAN :
          SyncStrategy(strategy, rollback_backup)
    \/ \E new_key \in KeyChoices : LegacyRotateApiKey(new_key)

\* ========================================================= service names
\* sanitize_service_name (app/utils/process.py:60-72) and the routes that take
\* a service name (app/routers/services.py, hub-api/server.py).  A name is a
\* sequence of characters: "a" alphanumeric, "-" and "_" permitted
\* punctuation, "/" and "." not permitted.

MaxName == 3
MaxBatch == 2

\* str(None), as an f-string renders it: no sequence of characters of a name
None == <<"None">>

Permitted(c) == IsAlnum(c) \/ c \in {"-", "_"}

\* process.py:69-72
sanitize_service_name(name) ==
    IF name = None \/ name = <<>> THEN None
    ELSE IF SelectSeq(name, Permitted) = <<>> THEN None
    ELSE SelectSeq(name, Permitted)

NameChoices == UNION {[1..n -> {"a", "-", "/"}] : n \in 0..MaxName}
BatchChoices == UNION {[1..n -> {<<>>, <<"a">>, <<"/">>, <<"a", "/">>}] : n \in 0..MaxBatch}

\* services.py:242-244, 400-402, 559-561, 579-581, 617-619, 636-638: 400 unless
\* the sanitized name is truthy, then the name goes into a path or a command
CheckedRoutes == {"update-service", "rollback-service", "migrate", "clear-db",
                  "vacuum", "changelog"}
\* services.py:597-603: checked the same way, the name is only compared
ComparedRoutes == {"clear-logs"}
\* services.py:505-506, 513-514: the sanitized result goes into the path unchecked
UncheckedRoutes == {"rollback-status", "rollback-list"}

NoNameReq == [route |-> "none", raw |-> <<>>, clean |-> <<>>, code |-> 0, used |-> {}]

InitNames == name_req = NoNameReq

nameFrame == <<sessVars, updVars, legVars, rbVars, secVars, pipeVars, hubVars>>

\* a route with one service name
ServiceRoute(route, name) ==
    /\ LET service == sanitize_service_name(name) IN
         name_req' = [route |-> route, raw |-> <<name>>, clean |-> <<service>>,
                      code |-> IF route \in UncheckedRoutes \/ service # None
                               THEN 200 ELSE 400,
                      used |-> IF route \in UncheckedRoutes
                                  \/ (route \in CheckedRoutes /\ service # None)
                               THEN {service} ELSE {}]
    /\ UNCHANGED nameFrame

\* services.py:530-551: the names that sanitize to nothing are dropped, the
\* others are logged by the job and reach no path and no command
BatchUpdateRoute(names) ==
    /\ LET services_to_update ==
               SelectSeq([i \in DOMAIN names |-> sanitize_service_name(names[i])],
                         LAMBDA s : s # None)
       IN name_req' = [route |-> "batch-update", raw |-> names,
                       clean |-> services_to_update,
                       code |-> IF services_to_update = <<>> THEN 400 ELSE 200,
                       used |-> {}]
    /\ UNCHANGED nameFrame

\* server.py:1355-1376, 1415-1416: the name as received goes into repo_path
\* and into the command lines
LegacyUpdateService(name) ==
    /\ name_req' = [route |-> "legacy-update-service", raw |-> <<name>>,
                    clean |-> <<name>>,
                    code |-> IF name = <<>> THEN 400 ELSE 200,
                    used |-> IF name = <<>> THEN {} ELSE {name}]
    /\ UNCHANGED nameFrame

\* server.py:1267-1288: likewise for each name of the list
LegacyBatchUpdate(names) ==
    /\ name_req' = [route |-> "legacy-batch-update", raw |-> names, clean |-> names,
                    code |-> IF names = <<>> THEN 400 ELSE 200,
                    used |-> {names[i] : i \in DOMAIN names}]
    /\ UNCHANGED nameFrame

NextNames ==
    \/ \E route \in CheckedRoutes \cup ComparedRoutes \cup UncheckedRoutes,
          name \in NameChoices : ServiceRoute(route, name)
    \/ \E names \in BatchChoices : BatchUpdateRoute(names)
    \/ \E name \in NameChoices : LegacyUpdateService(name)
    \/ \E names \in BatchChoices : LegacyBatchUpdate(names)

\* ============================================================= pipelines
\* The background jobs as command lists: _run_update (services.py:246-377),
\* _run_rollback (409-493), _run_batch (542-548), master-update's _run
\* (660-671), run_service_update (server.py:1364-1419) and run_batch_update
\* (server.py:1276-1348).  The handler answers, then the job runs its commands
\* one after the other; each command ends in one of Results.

Results == {"ok", "nonzero", "timeout", "launch"}
Strategies == {"stable", "latest"}
\* what `git ls-remote --tags origin` shows: a semantic-version tag, only
\* tags of other shapes, or no tag
RemoteTags == {"semver", "other", "none"}

\* process.py:35-57 and subprocess.run: a timeout and a failure to launch
\* raise; a non-zero exit raises only under check=True
Raises(check, result) == result \in {"timeout", "launch"} \/ (check /\ result = "nonzero")

\* a command of a job: the list item it belongs to, the service, the command,
\* whether it runs under check=True, whether its own try/except swallows what
\* it raises, and the ref it checks out ("" when it is no checkout)
Cmd(item, svc, cmd, check, guarded, ref) == <<item, svc, cmd, check, guarded, ref>>
CmdItem(c) == c[1]
CmdService(c) == c[2]
CmdName(c) == c[3]
CmdCheck(c) == c[4]
CmdGuarded(c) == c[5]
CmdRef(c) == c[6]

\* services.py:341-355: "Simply checkout default branch for now"
SelectRef(strategy, tags) == "default-branch"

\* server.py:1386-1408
LegacySelectRef(strategy, tags) ==
    IF strategy = "stable" /\ tags = "semver" THEN "highest-semver-tag"
    ELSE IF strategy = "stable" /\ tags = "other" THEN "last-listed-tag"
    ELSE "default-branch"

\* services.py:329-370
UpdateProgram(item, s, strategy, tags) ==
    <<Cmd(item, s, "backup", FALSE, FALSE, "")>>
    \o (IF HasGit(s)
        THEN <<Cmd(item, s, "fetch", FALSE, FALSE, ""),
               Cmd(item, s, "symbolic-ref", FALSE, FALSE, ""),
               Cmd(item, s, "checkout", FALSE, FALSE, SelectRef(strategy, tags)),
               Cmd(item, s, "reset", FALSE, FALSE, ""),
               Cmd(item, s, "pull", FALSE, FALSE, "")>>
        ELSE <<>>)
    \o <<Cmd(item, s, "compose-pull", FALSE, FALSE, ""),
         Cmd(item, s, "compose-up", FALSE, FALSE, "")>>

\* services.py:411-485: the document is loaded and the target picked (any
\* failure raises), then checkout, re-tag under its own try/except, restart
RollbackProgram(item, s) ==
    <<Cmd(item, s, "load-state", TRUE, FALSE, "")>>
    \o (IF HasGit(s) THEN <<Cmd(item, s, "checkout", FALSE, FALSE, "recorded-hash")>>
        ELSE <<>>)
    \o <<Cmd(item, s, "docker-tag", FALSE, TRUE, ""),
         Cmd(item, s, "compose-up", FALSE, FALSE, "")>>

\* services.py:663-669
MasterProgram(item) ==
    <<Cmd(item, "all", "backup-all", FALSE, FALSE, ""),
      Cmd(item, "all", "compose-up", FALSE, FALSE, "")>>

\* server.py:1371-1416: the git commands run under check=True
LegacySourceProgram(item, s, strategy, tags) ==
    IF ~HasGit(s) THEN <<>>
    ELSE <<Cmd(item, s, "fetch", TRUE, FALSE, ""),
           Cmd(item, s, "symbolic-ref", FALSE, FALSE, "")>>
         \o (IF strategy = "stable"
             THEN <<Cmd(item, s, "ls-remote", FALSE, FALSE, "")>> ELSE <<>>)
         \o <<Cmd(item, s, "checkout", TRUE, FALSE, LegacySelectRef(strategy, tags))>>
         \o (IF LegacySelectRef(strategy, tags) = "default-branch"
             THEN <<Cmd(item, s, "reset", TRUE, FALSE, ""),
                    Cmd(item, s, "pull", TRUE, FALSE, "")>>
             ELSE <<>>)

LegacyUpdateProgram(item, s, strategy, tags) ==
    <<Cmd(item, s, "backup", FALSE, FALSE, "")>>
    \o LegacySourceProgram(item, s, strategy, tags)
    \o <<Cmd(item, s, "compose-pull", FALSE, FALSE, ""),
         Cmd(item, s, "compose-up", FALSE, FALSE, "")>>

\* server.py:1280-1342: per name the same, then migrate and vacuum
RECURSIVE LegacyBatchProgram(_, _, _, _)
LegacyBatchProgram(names, item, strategy, tags) ==
    IF item > Len(names) THEN <<>>
    ELSE LegacyUpdateProgram(item, names[item], strategy, tags)
         \o <<Cmd(item, names[item], "migrate", FALSE, FALSE, ""),
              Cmd(item, names[item], "vacuum", FALSE, FALSE, "")>>
         \o LegacyBatchProgram(names, item + 1, strategy, tags)

\* a request's service name after sanitize_service_name: "" when nothing is left
PipeNames == Services \cup {""}
PipeLists == UNION {[1..n -> PipeNames] : n \in 0..MaxBatch}

NoCommand == [cmd |-> "none", svc |-> "", result |-> "ok", raised |-> FALSE]
IdlePipe == [route |-> "none", pc |-> "idle", names |-> <<>>, strategy |-> "stable",
             tags |-> "none", catch |-> "job", todo |-> <<>>, ran |-> <<>>,
             last |-> NoCommand, passed |-> FALSE, ref |-> "", log |-> "none"]
NoAck == [route |-> "none", code |-> 0, valid |-> FALSE]

InitPipe ==
    /\ pipe = IdlePipe
    /\ ack = NoAck

pipeFrame == <<sessVars, updVars, legVars, rbVars, secVars, nameVars, hubVars>>

\* the handler either refuses (code, nothing queued) or queues the job and
\* returns the acknowledgment; BackgroundTasks and the thread run afterwards
Answer(route, valid, code, names, strategy, tags, catch, program) ==
    /\ pipe.pc = "idle"
    /\ ack' = [route |-> route, code |-> code, valid |-> valid]
    /\ pipe' = IF code = 200
               THEN [IdlePipe EXCEPT !.route = route, !.pc = "run", !.names = names,
                       !.strategy = strategy, !.tags = tags, !.catch = catch,
                       !.todo = program]
               ELSE IdlePipe
    /\ UNCHANGED pipeFrame

\* services.py:228-383
UpdateService(name, strategy, tags) ==
    Answer("update-service", name # "", IF name = "" THEN 400 ELSE 200,
           <<name>>, strategy, tags, "job", UpdateProgram(1, name, strategy, tags))

\* services.py:386-499
RollbackService(name, exists) ==
    Answer("rollback-service", name # "" /\ exists,
           IF name = "" THEN 400 ELSE IF ~exists THEN 404 ELSE 200,
           <<name>>, "stable", "none", "job", RollbackProgram(1, name))

\* services.py:530-551: the job logs each kept name and runs no command
BatchUpdate(names) ==
    LET services_to_update == SelectSeq(names, LAMBDA s : s # "") IN
    Answer("batch-update", services_to_update # <<>>,
           IF services_to_update = <<>> THEN 400 ELSE 200,
           services_to_update, "stable", "none", "none", <<>>)

\* services.py:655-674: _run has no try/except
MasterUpdate ==
    Answer("master-update", TRUE, 200, <<>>, "stable", "none", "none", MasterProgram(1))

\* server.py:1355-1425
LegacyUpdate(name, strategy, tags) ==
    Answer("legacy-update-service", name # "", IF name = "" THEN 400 ELSE 200,
           <<name>>, strategy, tags, "job", LegacyUpdateProgram(1, name, strategy, tags))

\* server.py:1267-1354
LegacyBatch(names, strategy, tags) ==
    Answer("legacy-batch-update", names # <<>>, IF names = <<>> THEN 400 ELSE 200,
           names, strategy, tags, "item", LegacyBatchProgram(names, 1, strategy, tags))

\* services.py:375-377, 490-493, server.py:1343-1344, 1418-1419: what a job
\* raises is logged; the response of the request has been sent
AcknowledgedUnlessRaised(response, raised) ==
    IF raised THEN [response EXCEPT !.code = 500] ELSE response
Acknowledged(response, raised) == response

\* the job runs its next command
RunCommand(result) ==
    /\ pipe.pc = "run"
    /\ pipe.todo # <<>>
    /\ LET step == Head(pipe.todo)
           rest == Tail(pipe.todo)
           raised == Raises(CmdCheck(step), result)
           thrown == raised /\ ~CmdGuarded(step)
       IN /\ pipe' = [pipe EXCEPT
                        !.ran = Append(@, [svc |-> CmdService(step), cmd |-> CmdName(step)]),
                        !.last = [cmd |-> CmdName(step), svc |-> CmdService(step),
                                  result |-> result, raised |-> raised],
                        !.passed = @ \/ (result = "nonzero" /\ ~raised),
                        !.ref = IF CmdRef(step) # "" /\ result = "ok" THEN CmdRef(step) ELSE @,
                        !.todo = IF ~thrown THEN rest
                                 ELSE IF pipe.catch = "item"
                                      THEN SelectSeq(rest, LAMBDA c : CmdItem(c) # CmdItem(step))
                                      ELSE <<>>,
                        !.log = IF ~thrown THEN @
                                ELSE IF pipe.catch = "none" THEN "crashed" ELSE "failed"]
          /\ ack' = Acknowledged(ack, thrown)
    /\ UNCHANGED pipeFrame

\* the job returns: "completed" is logged unless an exception ended it
JobEnd ==
    /\ pipe.pc = "run"
    /\ pipe.todo = <<>>
    /\ pipe' = [pipe EXCEPT !.pc = "end",
                  !.log = IF pipe.log = "none" \/ pipe.catch = "item"
                          THEN "completed" ELSE @]
    /\ UNCHANGED ack
    /\ UNCHANGED pipeFrame

\* the task or thread is gone; the log and the response stay
JobReturn ==
    /\ pipe.pc = "end"
    /\ pipe' = IdlePipe
    /\ UNCHANGED ack
    /\ UNCHANGED pipeFrame

NextPipe ==
    \/ \E name \in PipeNames, strategy \in Strategies, tags \in RemoteTags :
          UpdateService(name, strategy, tags)
    \/ \E name \in PipeNames, exists \in BOOLEAN : RollbackService(name, exists)
    \/ \E names \in PipeLists : BatchUpdate(names)
    \/ MasterUpdate
    \/ \E name \in PipeNames, strategy \in Strategies, tags \in RemoteTags :
          LegacyUpdate(name, strategy, tags)
    \/ \E names \in PipeLists, strategy \in Strategies, tags \in RemoteTags :
          LegacyBatch(names, strategy, tags)
    \/ \E result \in Results : RunCommand(result)
    \/ JobEnd
    \/ JobReturn

\* ========================================================= specifications
\* ------------------------------------------- synchronous maintenance routes

\* services.py:552-591: POST /migrate and POST /clear-db run migrate.sh in the
\* request and answer with what it gave.
MaintRoutes == {"migrate", "clear-db"}

NoMaint == [route |-> "none", service |-> "", result |-> "none", code |-> 0,
            payload |-> "none"]

\* services.py:562-570, 583-591: run_command is called with its default
\* check=False; what it raises is caught and answered as {"error": ...}, what
\* it returns is answered as {"success": True, "output": ...}
MaintPayload(result) == IF Raises(FALSE, result) THEN "error" ELSE "success"

\* services.py:557-559, 578-580: the sanitized name, 400 when nothing is left
MaintenanceRoute(route, name, result) ==
    /\ maint' = IF name = ""
                THEN [NoMaint EXCEPT !.route = route, !.code = 400, !.payload = "detail"]
                ELSE [route |-> route, service |-> name, result |-> result,
                      code |-> 200, payload |-> MaintPayload(result)]
    /\ UNCHANGED <<metrics, settings_key, key_resp, writers>>
    /\ UNCHANGED <<sessVars, updVars, legVars, rbVars, secVars, nameVars, pipeVars>>

\* --------------------------------------------------------- metrics sampler

\* background.py:140: the activity window, and 202: the sampler's sleep
SampleWindow == 60
SamplerSleep == 30
MaxTicks == 3

\* time.time() when the process starts: further from 0 than the window
StartTime == SampleWindow
EndTime == StartTime + MaxTicks * SamplerSleep

\* main.py:109 with system.py:338: the route is served under the /api prefix
MetricsRoute == "/api/metrics"
\* main.py:158: the path the middleware compares with
ActivityPath == "/metrics"
RequestPaths == {MetricsRoute, ActivityPath}

NoTick == [done |-> FALSE, at |-> 0, served |-> 0, sampled |-> FALSE,
           inserted |-> FALSE]

\* background.py:24: last_metrics_request = 0
InitMetrics ==
    metrics = [now |-> StartTime, last_metrics_request |-> 0, served |-> 0,
               code |-> 0, tick |-> NoTick]

\* ------------------------------------------------- the static key in memory

\* config.py:108, 118: settings.HUB_API_KEY is read from the environment once,
\* when the module is imported; BootKey is the key the process started with
BootKey == Rep("b", MinKeyLength)
PresentedKeys == {<<>>, BootKey, Rep("a", MinKeyLength)}

NoKeyResp == [key |-> <<>>, role |-> "none", stored |-> None, rotated |-> FALSE]

\* security.py:119-122, 138-144: settings.HUB_API_KEY and api_key and
\* secrets.compare_digest(api_key, settings.HUB_API_KEY)
StaticKeyAccepted(configured, api_key) ==
    configured # None /\ api_key # <<>> /\ api_key = configured

\* ------------------------------------------- writers of the secrets file

Writers == {"rotate", "theme", "refresh"}
IdleWriter == [pc |-> "idle", lines |-> <<>>]

\* what the three overlapping calls are to store
NewKey == Rep("a", MinKeyLength)
NewStrategy == <<"latest">>
NewUserId == <<"u">>

InitHub ==
    /\ maint = NoMaint
    /\ InitMetrics
    /\ settings_key = BootKey
    /\ key_resp = NoKeyResp
    /\ writers = [w \in Writers |-> IdleWriter]

hubFrame == <<sessVars, updVars, legVars, rbVars, secVars, nameVars, pipeVars>>

\* the clock moves on by one sleep of the sampler
MetricsClock ==
    /\ metrics.now < EndTime
    /\ metrics' = [metrics EXCEPT !.now = @ + SamplerSleep]
    /\ UNCHANGED <<maint, settings_key, key_resp, writers>>
    /\ UNCHANGED hubFrame

\* main.py:147-160 and 107-114: the middleware marks activity when the path is
\* /metrics, then the request is routed: get_metrics (system.py:338-356, which
\* only reads the table) answers /api/metrics, any other path is a 404
MetricsRequest(path) ==
    /\ metrics' = [metrics EXCEPT
                     !.last_metrics_request = IF path = ActivityPath THEN metrics.now ELSE @,
                     !.served = IF path = MetricsRoute THEN metrics.now ELSE @,
                     !.code = IF path = MetricsRoute THEN 200 ELSE 404]
    /\ UNCHANGED <<maint, settings_key, key_resp, writers>>
    /\ UNCHANGED hubFrame

\* background.py:137-205: one pass of metrics_collector_thread: docker stats
\* runs only inside the window, rows are inserted only when it exits with 0
\* (a timeout is caught at line 204), then the thread sleeps
SamplerTick(result) ==
    /\ ~metrics.tick.done \/ metrics.now >= metrics.tick.at + SamplerSleep
    /\ LET sampled == metrics.now - metrics.last_metrics_request < SampleWindow IN
       metrics' = [metrics EXCEPT
                     !.tick = [done |-> TRUE, at |-> metrics.now,
                               served |-> metrics.served, sampled |-> sampled,
                               inserted |-> sampled /\ result = "ok"]]
    /\ UNCHANGED <<maint, settings_key, key_resp, writers>>
    /\ UNCHANGED hubFrame

\* security.py:119-124: a request with X-API-Key and no session token.  stored
\* and rotated are history variables: HUB_API_KEY as a re-read of the file
\* gives it, and whether the last rotate_api_key answered success
ApiKeyRequest(api_key) ==
    /\ key_resp' = [key |-> api_key,
                    role |-> IF StaticKeyAccepted(settings_key, api_key)
                             THEN "api_key" ELSE "401",
                    stored |-> IF "HUB_API_KEY" \in SecretKeys(secrets_file)
                               THEN SecretValue(secrets_file, "HUB_API_KEY") ELSE None,
                    rotated |-> sec_resp.route = "rotate" /\ sec_resp.code = 200]
    /\ UNCHANGED <<maint, metrics, settings_key, writers>>
    /\ UNCHANGED hubFrame

\* auth.py:96-146 leaves settings.HUB_API_KEY alone: it writes the file only
NextKeys ==
    \/ \E new_key \in KeyChoices : RotateApiKey(new_key)
    \/ \E api_key \in PresentedKeys : ApiKeyRequest(api_key)

\* auth.py:125-137: the file rotate_api_key writes from the lines it read
RotatedFile(lines, key) ==
    WriteSecrets(Put(Put(ReadSecrets(lines), "HUB_API_KEY", key), "ODIDO_API_KEY", key))

\* services.py:136-150: the file update_theme writes from the lines it read
SyncedFile(lines, strategy, rollback_backup) ==
    WriteSecrets(Put(Put(ReadSecrets(lines), "UPDATE_STRATEGY", strategy),
                     "ROLLBACK_BACKUP_ENABLED",
                     IF rollback_backup THEN <<"true">> ELSE <<"false">>))

\* background.py:38-57: a line that starts with key= is replaced by
\* key="val", every other line is kept as it is, a missing key is appended
RefreshedFile(lines, key, val) ==
    LET entry == Line(key, <<"\"">> \o val \o <<"\"">>)
        new_lines == [i \in DOMAIN lines |->
                        IF lines[i].eq /\ lines[i].k = key THEN entry ELSE lines[i]]
    IN IF \E i \in DOMAIN lines : lines[i].eq /\ lines[i].k = key
       THEN new_lines ELSE Append(new_lines, entry)

\* auth.py:116-124, services.py:128-135, background.py:33-37: the writer reads
\* the file; refresh_secrets returns at once when there is no file
WriterRead(w) ==
    /\ writers[w].pc = "idle"
    /\ writers' = [writers EXCEPT ![w] =
                     IF w = "refresh" /\ secrets_file = <<>>
                     THEN [pc |-> "skipped", lines |-> <<>>]
                     ELSE [pc |-> "write", lines |-> secrets_file]]
    /\ UNCHANGED <<maint, metrics, settings_key, key_resp>>
    /\ UNCHANGED hubFrame

\* auth.py:131-137, services.py:145-150, background.py:56-57: the file is
\* rewritten from what the writer read; nothing is locked in between
WriterWrite(w) ==
    /\ writers[w].pc = "write"
    /\ secrets_file' =
          IF w = "rotate" THEN RotatedFile(writers[w].lines, NewKey)
          ELSE IF w = "theme" THEN SyncedFile(writers[w].lines, NewStrategy, TRUE)
          ELSE RefreshedFile(writers[w].lines, "ODIDO_USER_ID", NewUserId)
    /\ writers' = [writers EXCEPT ![w] = [pc |-> "done", lines |-> <<>>]]
    /\ UNCHANGED <<maint, metrics, settings_key, key_resp, sec_resp>>
    /\ UNCHANGED <<sessVars, updVars, legVars, rbVars, nameVars, pipeVars>>

NextWriters ==
    \/ \E w \in Writers : WriterRead(w)
    \/ \E w \in Writers : WriterWrite(w)

NextHub ==
    \/ \E route \in MaintRoutes, name \in PipeNames, result \in Results :
          MaintenanceRoute(route, name, result)
    \/ MetricsClock
    \/ \E path \in RequestPaths : MetricsRequest(path)
    \/ \E result \in Results : SamplerTick(result)


InitOps == InitSecrets /\ InitNames /\ InitPipe /\ InitHub

Init == InitSessions /\ InitUpdateWith(FALSE, <<>>) /\ InitLegacy /\ InitRollback /\ InitOps
Next == NextSessions
Spec == Init /\ [][Next]_vars

InitWithHistory == InitSessions /\ InitUpdate /\ InitLegacy /\ InitRollback /\ InitOps
SpecUpdate == InitWithHistory /\ [][NextUpdate]_vars

SpecLegacy == Init /\ [][NextLegacy]_vars

InitWithFiles == InitSessions /\ InitRollbackFiles /\ InitLegacy /\ InitRollback /\ InitOps
SpecRollback == InitWithFiles /\ [][NextRollback]_vars

InitWithSecrets == InitSessions /\ InitUpdateWith(FALSE, <<>>) /\ InitLegacy /\ InitRollback
                   /\ InitSecretFiles /\ InitNames /\ InitPipe /\ InitHub
SpecSecrets == InitWithSecrets /\ [][NextSecrets]_vars

SpecNames == Init /\ [][NextNames]_vars

SpecPipeline == Init /\ [][NextPipe]_vars

\* the session machine under fair scheduling: a thread that can take its next
\* step (the lock is free, or it holds the lock) takes it eventually
FairSessions ==
    /\ WF_vars(CreateSession)
    /\ WF_vars(SaveSessions("verify"))
    /\ WF_vars(SaveSessions("sweeper"))
    /\ WF_vars(AuthEnter)
    /\ WF_vars(AuthDecide)
    /\ WF_vars(SweeperPurge)
SpecFair == Init /\ [][Next]_vars /\ FairSessions

SpecHub == Init /\ [][NextHub]_vars

SpecKeys == InitWithSecrets /\ [][NextKeys]_vars

SpecWriters == InitWithSecrets /\ [][NextWriters]_vars

\* ================================================================= claims

\* C1 (as stated): once a token's expiry has passed while cleanup_enabled was
\* true, no later get_current_user call presenting it returns 'admin', whatever
\* happens to the flag afterwards.
C1_StaleNeverAdmin ==
    [][(auth.pc # "done" /\ auth'.pc = "done" /\ auth'.role = "admin")
          => auth.tok \notin stale]_vars

\* C1 (amended): a get_current_user call that reads cleanup_enabled as true and
\* finds the presented token's stored expiry reached does not return 'admin' and
\* deletes the token; 'admin' for such a token comes only from a call that read
\* the flag as false.
C1_ExpiredNeedsCleanupOff ==
    [][(auth.pc = "locked" /\ auth'.pc = "done")
          => /\ auth'.role = "admin"
                  => (~auth.flag \/ clock < valid_sessions[auth.tok])
             /\ (auth.flag /\ clock >= valid_sessions[auth.tok])
                  => (auth'.role # "admin" /\ ~InTable(valid_sessions', auth.tok))]_vars

\* a call has refused an expired token with cleanup enabled and deleted it
C1_Witness ==
    /\ auth.pc = "done"
    /\ auth.role = "401"
    /\ auth.tok \in stale
    /\ cleanup_enabled
    /\ ~InTable(valid_sessions, auth.tok)

\* C2: a get_current_user call that presents an issued token before the token's
\* expiry returns 'admin'; in particular it is never left waiting for
\* session_lock behind a holder that does not release it (the sweeper stuck in
\* save_sessions).
C2_ValidTokenAuthenticates ==
    (/\ auth.pc = "wait"
     /\ InTable(valid_sessions, auth.tok)
     /\ clock < valid_sessions[auth.tok])
        => ~(session_lock = "sweeper" /\ sweeper.pc = "save")

\* C3: for every service the stored rollback history has at most 5 entries.
C3_HistoryBounded ==
    \A s \in Services : Len(rollback_file[s].hist) <= HistoryLimit

\* a sixth checkpoint has been stored: five entries, the oldest evicted
C3_Witness ==
    \E s \in Services :
        /\ Len(rollback_file[s].hist) = HistoryLimit
        /\ rollback_file[s].hist[1].ts > HistoryLimit

\* C4: a job that no other job of its service overlapped has, once past its
\* checkpoint stage, left the history equal to the first 5 of (one new entry
\* followed by the history before the job).
C4_EachJobPrependsOne ==
    \A j \in JobIds :
        (job[j].pc \in {"backup", "source", "rebuild", "done", "failed"} /\ job[j].solo)
            => LET h == Stored(rollback_file[job[j].svc])
               IN /\ h # <<>>
                  /\ h = Take(<<h[1]>> \o job[j].before, HistoryLimit)
                  /\ \A i \in 1..Len(job[j].before) : job[j].before[i].ts < h[1].ts

\* C5: after an update job of a service that is source-tracked or has a running
\* container, rollback-status reports available and rollback-list is non-empty.
C5_RollbackPointAfterUpdate ==
    \A j \in JobIds :
        (job[j].pc = "done" /\ (HasGit(job[j].svc) \/ image[job[j].svc] # 0))
            => (RollbackStatus(job[j].svc) /\ RollbackList(job[j].svc) # <<>>)

\* C6: a mutation route called with neither a valid session token nor the valid
\* API key answers 401.
C6_MutationsNeedCredentials ==
    (leg_resp.route \in LegacyMutations /\ ~leg_resp.authed) => leg_resp.code = 401

\* C7: while the flag stays false after toggle-session-cleanup(false), a token
\* that was in the table at the toggle authenticates as 'admin' at any time.
C7_ExemptWhileDisabled ==
    (~cleanup_enabled)
        => \A t \in exempt :
             AuthAnswer(valid_sessions, t, cleanup_enabled, clock, "none") = "admin"

\* C8: a sweeper pass (started with cleanup enabled) removes every token whose
\* expiry is earlier than the pass's clock reading and leaves every other token
\* in place with its expiry.
C8_SweepRemovesExpired ==
    [][(sweeper.pc = "armed" /\ sweeper'.pc # "armed")
          => \A t \in Tokens :
               InTable(valid_sessions, t)
                 => IF valid_sessions[t] < sweeper.now
                    THEN ~InTable(valid_sessions', t)
                    ELSE valid_sessions'[t] = valid_sessions[t]]_vars

\* a pass has removed an expired token and kept another one
C8_Witness ==
    /\ sweeper.pc = "save"
    /\ cleanup_enabled
    /\ \E t \in stale : ~InTable(valid_sessions, t)
    /\ \E u \in Tokens : InTable(valid_sessions, u) /\ clock <= valid_sessions[u]

\* C9: a sweeper pass that removed a session goes on to write the document and
\* release session_lock: it never calls save_sessions, which takes the
\* non-reentrant session_lock, while holding that lock itself.
C9_SweeperSaveProceeds ==
    sweeper.pc = "save" => session_lock # "sweeper"

\* C10: no step taken while cleanup_enabled is false (after the toggle to false
\* has returned, before it is re-enabled) removes a token from the session table.
C10_NoDeleteWhileDisabled ==
    [][(~cleanup_enabled /\ ~cleanup_enabled')
          => \A t \in Tokens :
               InTable(valid_sessions, t) => InTable(valid_sessions', t)]_vars


\* C11: no other thread changes cleanup_enabled between a check of the flag and
\* the act that depends on it: not while the sweeper has read the flag and has
\* yet to delete, nor while get_current_user is inside its locked block.
C11_FlagStableDuringCheckThenAct ==
    [][(sweeper.pc = "armed" \/ auth.pc = "locked")
          => cleanup_enabled' = cleanup_enabled]_vars

\* C12: when no operation is in progress, every session that authenticates now
\* also authenticates after a restart, that is against the table load_sessions
\* builds from the session document (cleanup_enabled starts true).
C12_SessionsSurviveRestart ==
    (/\ auth.pc = "idle" /\ verify.pc = "idle"
     /\ sweeper.pc = "sleep" /\ session_lock = "free")
        => \A t \in Tokens :
             AuthAnswer(valid_sessions, t, TRUE, clock, "none") = "admin"
               => AuthAnswer(LoadSessions(sessions_file, clock), t, TRUE, clock, "none")
                    = "admin"

\* C13: a successful session-token authentication never leaves the session with
\* an earlier expiry than it had before the call.
C13_AuthenticationExtends ==
    [][(auth.pc = "locked" /\ auth'.pc = "done" /\ auth'.role = "admin")
          => valid_sessions'[auth.tok] >= valid_sessions[auth.tok]]_vars

\* C14: a verify-admin call that is refused adds no entry to the session table,
\* writes nothing to the session document, generates no token and returns none.
C14_RejectedVerifyHasNoEffect ==
    [][(verify.pc = "idle" /\ verify'.pc = "rejected")
          => /\ valid_sessions' = valid_sessions
             /\ sessions_file' = sessions_file
             /\ issued' = issued
             /\ verify'.token = NoToken]_vars

\* a verify-admin call has been refused while a session exists
C14_Witness ==
    /\ verify.pc = "rejected"
    /\ verify.token = NoToken
    /\ \E t \in Tokens : InTable(valid_sessions, t) /\ sessions_file[t] # NoSession

\* C15: a request presenting the static API key is answered at any time: the
\* event loop that runs get_current_user is never parked on session_lock behind
\* a holder that does not release it.
C15_KeyRequestServed ==
    auth.pc = "wait" => session_lock # "sweeper"


\* the rollback job has picked its target entry
RollbackPicked == rollback.pc \in {"source", "image", "restart", "done"}

\* C16: a rollback requested without a hash restores history[0], the newest
\* entry, whatever the length of the history.
C16_DefaultTargetsNewest ==
    (RollbackPicked /\ rollback.target = 0)
        => /\ rollback.index = 1
           /\ rollback.hash = Stored(rollback_file[rollback.svc])[1].hash
           /\ rollback.img = Stored(rollback_file[rollback.svc])[1].img

\* a rollback without a hash has picked its entry from a history of two
C16_Witness ==
    /\ RollbackPicked
    /\ rollback.target = 0
    /\ rollback.index = 1
    /\ Len(Stored(rollback_file[rollback.svc])) = MaxHist
    /\ Stored(rollback_file[rollback.svc])[1] # Stored(rollback_file[rollback.svc])[2]

\* C17: a rollback requested with a target restores the newest entry whose hash
\* or image equals the target, and never an entry that matches it in neither
\* field.
C17_SuppliedTargetMatches ==
    (RollbackPicked /\ rollback.target # 0)
        => /\ rollback.hash = rollback.target \/ rollback.img = rollback.target
           /\ \A k \in 1..(rollback.index - 1) :
                 LET e == Stored(rollback_file[rollback.svc])[k]
                 IN e.hash # rollback.target /\ e.img # rollback.target

\* C17 (amended): with a target that equals the hash or image field of some
\* entry the rollback restores the newest such entry; with a target that matches
\* no entry it restores history[0].
C17_MatchOrNewest ==
    (RollbackPicked /\ rollback.target # 0)
        => LET h == Stored(rollback_file[rollback.svc])
               found == {k \in 1..Len(h) : h[k].hash = rollback.target
                                            \/ h[k].img = rollback.target}
           IN /\ rollback.index \in 1..Len(h)
              /\ rollback.hash = h[rollback.index].hash
              /\ rollback.img = h[rollback.index].img
              /\ IF found # {}
                 THEN rollback.index \in found /\ \A k \in found : rollback.index <= k
                 ELSE rollback.index = 1

\* a rollback has picked, by its target, an entry that is not the newest
C17_Witness ==
    /\ RollbackPicked
    /\ rollback.target # 0
    /\ rollback.index = 2
    /\ rollback.hash = rollback.target \/ rollback.img = rollback.target

\* C18: rollback-service answers 404 exactly when rollback-status reports no
\* rollback point for the service, and a job is started only with the answer 200
\* for a service that has one.
C18_NotFoundIffUnavailable ==
    /\ [](rb_resp.route = "rollback-service"
            => (rb_resp.code = 404 <=> ~RollbackStatus(rb_resp.svc)))
    /\ [][(rollback.pc = "idle" /\ rollback'.pc # "idle")
            => (RollbackStatus(rollback'.svc) /\ rb_resp'.code = 200)]_vars

\* rollback-service has answered 404 and no job runs
C18_Witness ==
    /\ rb_resp.route = "rollback-service"
    /\ rb_resp.code = 404
    /\ ~RollbackStatus(rb_resp.svc)
    /\ rollback.pc = "idle"

\* C19: no step of rollback-service, rollback-status or rollback-list changes a
\* stored history document.
C19_RollbackReadOnly ==
    [][rollback_file' = rollback_file]_vars

\* a rollback has run to its end and moved the service to another revision
C19_Witness ==
    /\ rollback.pc = "done"
    /\ rollback.hash # 0
    /\ head[rollback.svc] = rollback.hash
    /\ head[rollback.svc] # 1

\* C20: a reader never finds a stored history document empty or partial: a
\* document that exists parses.
C20_DocumentsAlwaysComplete ==
    \A s \in Services : rollback_file[s] # NoFile => Readable(rollback_file[s])

\* C21: after a successful rotate_api_key a re-read of the secrets file yields
\* the new value for HUB_API_KEY and, for every other key, exactly what it
\* yielded before (no key added, dropped or changed); a theme strategy sync
\* changes only UPDATE_STRATEGY and ROLLBACK_BACKUP_ENABLED.
C21_OnlyTargetedKeysChange ==
    [][LET before == secrets_file
           after == secrets_file'
           Kept(targets) ==
               \A k \in (SecretKeys(before) \cup SecretKeys(after)) \ targets :
                   /\ k \in SecretKeys(before)
                   /\ k \in SecretKeys(after)
                   /\ SecretValue(before, k) = SecretValue(after, k)
       IN /\ (sec_resp'.route = "rotate" /\ sec_resp'.code = 200 /\ secVars' # secVars)
               => /\ <<"HUB_API_KEY", sec_resp'.input>> \in Secrets(after)
                  /\ Kept({"HUB_API_KEY"})
          /\ (sec_resp'.route = "theme" /\ secVars' # secVars)
               => Kept({"UPDATE_STRATEGY", "ROLLBACK_BACKUP_ENABLED"})]_vars

\* C22: a rotate-api-key request whose new_key is empty, shorter than 16
\* characters or holds a character that is not alphanumeric is answered 400
\* and leaves the secrets file as it was.
C22_WeakKeyRejected ==
    [][(/\ sec_resp'.route \in {"rotate", "legacy-rotate"}
        /\ secVars' # secVars
        /\ \/ Len(sec_resp'.input) < MinKeyLength
           \/ \E i \in DOMAIN sec_resp'.input : ~IsAlnum(sec_resp'.input[i]))
          => (sec_resp'.code = 400 /\ secrets_file' = secrets_file)]_vars

\* C23: sanitize_service_name applied to its own valid result returns it
\* unchanged; a non-empty name of permitted characters only is returned
\* unchanged; the empty name and every name holding a character outside the
\* permitted set give the invalid result.
C23_SanitizeIdempotentRejecting ==
    (name_req.route \in CheckedRoutes \cup ComparedRoutes \cup UncheckedRoutes)
        => LET s == name_req.raw[1]
               r == name_req.clean[1]
           IN /\ r # None => sanitize_service_name(r) = r
              /\ (s # <<>> /\ \A i \in DOMAIN s : Permitted(s[i])) => r = s
              /\ (s = <<>> \/ \E i \in DOMAIN s : ~Permitted(s[i])) => r = None

\* C24: a route that takes one service name answers 400 when the name is empty
\* or holds a character outside the permitted set, and every name that reaches
\* a path or a command is a name of the request, non-empty, not null and with
\* nothing stripped from it.
C24_InvalidNameRefused ==
    LET Invalid(s) == s = <<>> \/ \E i \in DOMAIN s : ~Permitted(s[i])
    IN name_req.route # "none"
         => /\ (Len(name_req.raw) = 1 /\ Invalid(name_req.raw[1])) => name_req.code = 400
            /\ \A u \in name_req.used :
                  /\ u # None
                  /\ ~Invalid(u)
                  /\ \E i \in DOMAIN name_req.raw : name_req.raw[i] = u

\* C25: whatever the backup command of an update job does (non-zero exit,
\* timeout, failure to launch), the job goes on: the source refresh and the
\* rebuild are still to be run after it.
C25_BackupNeverAborts ==
    [][(/\ pipe.pc = "run"
        /\ pipe.route \in {"update-service", "legacy-update-service"}
        /\ pipe.todo # <<>>
        /\ CmdName(Head(pipe.todo)) = "backup"
        /\ pipe' # pipe)
          => (/\ pipe'.todo = Tail(pipe.todo)
              /\ \E i \in DOMAIN pipe'.todo : CmdName(pipe'.todo[i]) = "compose-up")]_vars

\* C26: when a batch job has ended, the pipeline has been run once for each
\* valid name of the list, in list order: the backups that were run are those
\* of the valid names, in that order, and each is followed by the rebuild of
\* the same service or by the failure of that service's pipeline.
C26_BatchRunsEachPipeline ==
    (pipe.pc = "end" /\ pipe.route \in {"batch-update", "legacy-batch-update"})
        => LET valid == SelectSeq(pipe.names, LAMBDA s : s # "")
           IN SelectSeq(pipe.ran, LAMBDA c : c.cmd = "backup")
                = [i \in DOMAIN valid |-> [svc |-> valid[i], cmd |-> "backup"]]

\* C27: the ref an update job has checked out is the one the strategy dictates:
\* under 'stable' the highest semantic-version tag, without one the newest tag
\* of any shape, without any tag the default branch; under any other strategy
\* the default branch.
C27_RefFollowsStrategy ==
    (pipe.route \in {"update-service", "legacy-update-service", "legacy-batch-update"}
       /\ pipe.ref # "")
        => pipe.ref = IF pipe.strategy = "stable" /\ pipe.tags = "semver"
                      THEN "highest-semver-tag"
                      ELSE IF pipe.strategy = "stable" /\ pipe.tags = "other"
                           THEN "newest-tag"
                           ELSE "default-branch"

\* C28: an update job that has ended and whose rebuild and restart command
\* returned has, after it, invoked the migration tool in 'migrate' mode for the
\* same service.
C28_MigrateFollowsRebuild ==
    (pipe.pc = "end"
       /\ pipe.route \in {"update-service", "legacy-update-service", "legacy-batch-update"}
       /\ pipe.log = "completed")
        => \A k \in DOMAIN pipe.ran :
              (pipe.ran[k].cmd = "compose-up" /\ ~(k = Len(pipe.ran) /\ pipe.last.raised))
                 => \E m \in DOMAIN pipe.ran :
                       m > k /\ pipe.ran[m] = [svc |-> pipe.ran[k].svc, cmd |-> "migrate"]

\* C29: every command of an update, rollback or master-update job that timed
\* out or exited non-zero raised to the job, and no job logs its completion
\* after a command that exited non-zero.
C29_NonZeroExitRaises ==
    pipe.route \in {"update-service", "rollback-service", "master-update"}
        => /\ pipe.last.result \in {"nonzero", "timeout"} => pipe.last.raised
           /\ pipe.log = "completed" => ~pipe.passed

C31_ToolFailureAnswersError ==
    (maint.code = 200 /\ maint.result \in {"nonzero", "timeout"})
        => maint.payload = "error"

\* C32: a sampler tick inserts no MetricsSample row when no metrics-read request
\* was served in the 60 seconds before it, and inserts rows when GET
\* /api/metrics was served within those 60 seconds.
C32_SamplesFollowServedRequests ==
    metrics.tick.done =>
        (metrics.tick.inserted
            <=> (metrics.tick.served # 0
                 /\ metrics.tick.at - metrics.tick.served < SampleWindow))

\* C33: in every update job the checkpoint is in the history document before
\* the first mutating command (backup, fetch/checkout/reset, pull, up --build)
\* is issued, and its hash and image are the service's revision and image id
\* as the job found them when it started.
C33_CheckpointBeforeMutation ==
    /\ [](\A j \in JobIds :
            (job[j].pc \in {"backup", "source", "rebuild", "done"} /\ job[j].solo)
                => LET h == Stored(rollback_file[job[j].svc])
                   IN /\ h # <<>>
                      /\ h[1].hash = job[j].hash
                      /\ h[1].img = job[j].img
                      /\ \A i \in 1..Len(job[j].before) : job[j].before[i].ts < h[1].ts)
    /\ [][\A j \in JobIds :
            (job[j].pc = "capture" /\ job'[j].pc # "capture")
                => /\ job'[j].hash = head[job[j].svc]
                   /\ job'[j].img = image[job[j].svc]]_vars

\* C39: two overlapping update jobs of one service that have both written
\* their checkpoint leave both entries in the history document: it is
\* readable and holds, newest first, two entries newer than everything the
\* job that started first found in it.
C39_OverlappingJobsKeepBoth ==
    \A a \in JobIds, b \in JobIds :
        (/\ a # b
         /\ job[a].svc = job[b].svc
         /\ job[a].pc \in {"backup", "source", "rebuild", "done"}
         /\ job[b].pc \in {"backup", "source", "rebuild", "done"}
         /\ ShouldCheckpoint(rollback_enabled, job[a].hash, job[a].img)
         /\ ShouldCheckpoint(rollback_enabled, job[b].hash, job[b].img))
            => LET f == rollback_file[job[a].svc]
                   h == Stored(f)
                   Newer(j) == {i \in 1..Len(h) :
                                  \A k \in 1..Len(job[j].before) :
                                      job[j].before[k].ts < h[i].ts}
               IN /\ Readable(f)
                  /\ \A i \in 1..(Len(h) - 1) : h[i].ts > h[i + 1].ts
                  /\ Cardinality(Newer(a)) >= 2 \/ Cardinality(Newer(b)) >= 2

\* C34: in an update job every command of the source refresh and of the
\* rebuild/restart that does not succeed gets the failure logged, which the
\* job never replaces by 'update completed'; after a failed image pull the
\* restart is not run.
C34_CompletedOnlyAfterSuccess ==
    [][(pipe.pc = "run" /\ pipe.route = "update-service")
          => /\ (/\ pipe'.ran # pipe.ran
                 /\ pipe'.last.cmd \in {"fetch", "checkout", "reset", "pull",
                                         "compose-pull", "compose-up"}
                 /\ pipe'.last.result # "ok")
                  => /\ pipe'.log = "failed"
                     /\ \A i \in DOMAIN pipe'.todo :
                           CmdName(pipe'.todo[i]) # "compose-up"
             /\ pipe.log = "failed" => pipe'.log = "failed"]_vars

\* C35: a rollback in which the force-checkout, the image re-tag or the restart
\* exited non-zero or timed out logs 'rollback failed' when it ends, never
\* logs 'rollback completed', and does not log 'Source code reverted' when
\* the step that failed is the checkout.
C35_FailedStepIsLoggedAsFailure ==
    rollback.bad # {}
        => /\ "completed" \notin rollback.log
           /\ "checkout" \in rollback.bad => "reverted" \notin rollback.log
           /\ rollback.pc \in {"done", "failed"} => "failed" \in rollback.log

C38_RunningApiUsesStoredKey ==
    key_resp.rotated
        => (key_resp.role = "api_key" <=> key_resp.key = key_resp.stored)

\* C40: when rotate_api_key, a theme strategy sync and refresh_secrets have all
\* read and rewritten the secrets file, in whatever interleaving, a re-read of
\* the file yields the new HUB_API_KEY, the new UPDATE_STRATEGY and the new
\* ODIDO_USER_ID.
C40_NoLostSecretUpdate ==
    (\A w \in Writers : writers[w].pc = "done")
        => /\ <<"HUB_API_KEY", NewKey>> \in Secrets(secrets_file)
           /\ <<"UPDATE_STRATEGY", NewStrategy>> \in Secrets(secrets_file)
           /\ <<"ODIDO_USER_ID", NewUserId>> \in Secrets(secrets_file)

\* C37: no thread holds session_lock for ever: under fair scheduling whoever
\* has taken the lock releases it, also the sweeper after a pass that found
\* expired sessions.
C37_LockAlwaysReleased ==
    (session_lock # "free") ~> (session_lock = "free")

====
